---- MODULE Spec2Model ----
(***************************************************************************)
(* Model of the trusted-repos policy: the image reference parser           *)
(* (Image::new, src/settings.rs) and the validate entry point (src/lib.rs).*)
(*                                                                         *)
(* A string is a sequence of one-character strings.  An Option is a        *)
(* sequence of length 0 (None) or 1 (Some).                                *)
(***************************************************************************)
EXTENDS Integers, Sequences, FiniteSets, TLC

VARIABLES pc, image, result, reparsed, request, response

vars == <<pc, image, result, reparsed, request, response>>

(***************************************************************************)
(* Bounds of the model.                                                    *)
(***************************************************************************)
\* longest free-form reference string that is enumerated
MaxLen == 4
\* longest free-form text put in front of an "@sha256:" suffix
MaxBase == 2
\* most image references in one request
MaxImages == 2

(***************************************************************************)
(* Strings.                                                                *)
(***************************************************************************)
None == <<>>
Some(x) == <<x>>

Min(S) == CHOOSE x \in S : \A y \in S : x <= y
Max(S) == CHOOSE x \in S : \A y \in S : x >= y

Drop(s, n) == SubSeq(s, n + 1, Len(s))
Take(s, n) == SubSeq(s, 1, n)

\* length of the longest prefix of s holding no character of stop
SpanLen(s, stop) ==
    LET idx == {i \in 1..Len(s) : s[i] \in stop}
    IN  IF idx = {} THEN Len(s) ELSE Min(idx) - 1

StartsWith(s, p) == Len(s) >= Len(p) /\ Take(s, Len(p)) = p

Contains(s, c) == \E i \in 1..Len(s) : s[i] = c

Digits == <<"0", "1", "2", "3", "4", "5", "6", "7", "8", "9">>
DigitSet == {Digits[i] : i \in 1..10}
DigitVal(c) == (CHOOSE i \in 1..10 : Digits[i] = c) - 1

HexSet == DigitSet \cup {"a", "b", "c", "d", "e", "f", "A", "B", "C", "D", "E", "F"}

RECURSIVE ToDecimal(_)
ToDecimal(n) ==
    IF n < 10 THEN <<Digits[n + 1]>>
    ELSE Append(ToDecimal(n \div 10), Digits[(n % 10) + 1])

Scheme == <<"r", "e", "g", "i", "s", "t", "r", "y", ":", "/", "/">>
ShaPrefix == <<"@", "s", "h", "a", "2", "5", "6", ":">>

(***************************************************************************)
(* Url::parse of the url crate, on "registry://" followed by the           *)
(* reference, for references over letters, digits and . : / @ (no ? # \    *)
(* [ ] % and no white space).  "registry" is not a special scheme: the     *)
(* host is opaque (kept verbatim, never lower-cased nor read as IPv4), it  *)
(* may be empty, there is no default port, and a reference without '/'     *)
(* has the empty path.                                                     *)
(***************************************************************************)
MaxPort == 2 ^ 16 - 1

UrlError == [ok |-> FALSE, host |-> None, port |-> None, path |-> <<>>, text |-> <<>>]

\* the userinfo percent-encode set, restricted to the characters above
EncodeUserinfoChar(c) ==
    IF c = "@" THEN <<"%", "4", "0">>
    ELSE IF c = ":" THEN <<"%", "3", "A">>
    ELSE IF c = "/" THEN <<"%", "2", "F">>
    ELSE <<c>>

RECURSIVE EncodeUserinfo(_)
EncodeUserinfo(s) ==
    IF s = <<>> THEN <<>>
    ELSE EncodeUserinfoChar(Head(s)) \o EncodeUserinfo(Tail(s))

\* serialisation of the userinfo u (the authority text before its last '@')
Userinfo(u) ==
    LET colon    == SpanLen(u, {":"}) + 1
        hasColon == colon <= Len(u)
        user     == IF hasColon THEN Take(u, colon - 1) ELSE u
        pass     == IF hasColon THEN Drop(u, colon) ELSE <<>>
    IN  EncodeUserinfo(user)
        \o (IF pass # <<>> THEN <<":">> \o EncodeUserinfo(pass) ELSE <<>>)
        \o (IF user # <<>> \/ pass # <<>> THEN <<"@">> ELSE <<>>)

\* the port digits p, most significant first: -1 for an invalid port
RECURSIVE PortValue(_, _, _)
PortValue(p, i, acc) ==
    IF i > Len(p) THEN acc
    ELSE IF p[i] \notin DigitSet THEN -1
    ELSE LET next == acc * 10 + DigitVal(p[i])
         IN  IF next > MaxPort THEN -1 ELSE PortValue(p, i + 1, next)

RECURSIVE Split(_)
Split(s) ==
    LET n == SpanLen(s, {"/"})
    IN  IF n = Len(s) THEN <<s>> ELSE <<Take(s, n)>> \o Split(Drop(s, n + 1))

\* removal of the "." and ".." segments of a path
RECURSIVE PathSegments(_, _, _)
PathSegments(segs, i, out) ==
    IF i > Len(segs) THEN out
    ELSE LET seg  == segs[i]
             last == i = Len(segs)
             next == IF seg = <<".", ".">>
                     THEN LET popped == IF out = <<>> THEN out ELSE Take(out, Len(out) - 1)
                          IN  IF last THEN Append(popped, <<>>) ELSE popped
                     ELSE IF seg = <<".">>
                     THEN IF last THEN Append(out, <<>>) ELSE out
                     ELSE Append(out, seg)
         IN  PathSegments(segs, i + 1, next)

RECURSIVE JoinPath(_)
JoinPath(segs) ==
    IF segs = <<>> THEN <<>>
    ELSE <<"/">> \o Head(segs) \o JoinPath(Tail(segs))

\* the path of the url: rest is empty or starts with '/'
UrlPath(rest) ==
    IF rest = <<>> THEN <<>>
    ELSE JoinPath(PathSegments(Split(Tail(rest)), 1, <<>>))

UrlParse(s) ==
    LET slash     == SpanLen(s, {"/"})
        authority == Take(s, slash)
        rest      == Drop(s, slash)
        ats       == {i \in 1..Len(authority) : authority[i] = "@"}
        lastAt    == IF ats = {} THEN 0 ELSE Max(ats)
        userinfo  == IF lastAt > 1 THEN Userinfo(Take(authority, lastAt - 1)) ELSE <<>>
        hostport  == Drop(authority, lastAt)
        hostLen   == SpanLen(hostport, {":"})
        host      == Take(hostport, hostLen)
        hasColon  == hostLen < Len(hostport)
        portText  == Drop(hostport, hostLen + 1)
        portNum   == PortValue(portText, 1, 0)
        port      == IF portText = <<>> THEN None ELSE Some(portNum)
        path      == UrlPath(rest)
    IN  IF lastAt = 1 /\ hostport = <<>> /\ rest # <<>> THEN UrlError
        ELSE IF portNum = -1 THEN UrlError
        ELSE IF host = <<>> /\ (hasColon \/ userinfo # <<>>) THEN UrlError
        ELSE [ok   |-> TRUE,
              host |-> IF host = <<>> THEN None ELSE Some(host),
              port |-> port,
              path |-> path,
              text |-> Scheme \o userinfo \o host
                       \o (IF port = None THEN <<>> ELSE <<":">> \o ToDecimal(portNum))
                       \o path]

(***************************************************************************)
(* Image::new.                                                             *)
(***************************************************************************)
\* {64} of the sha256 group of parse_fqn
DigestLen == 64

NoMatch == [matched |-> FALSE, fqn |-> None, tag |-> None, sha256 |-> None]

\* (@sha256:(?P<sha256>[A-Fa-f0-9]{64}))?$ at the text s: the digest captured,
\* None when the group is skipped, and whether the end of the text is reached
ShaGroup(s) ==
    IF StartsWith(s, ShaPrefix)
       /\ Len(s) >= Len(ShaPrefix) + DigestLen
       /\ \A i \in 1..DigestLen : s[Len(ShaPrefix) + i] \in HexSet
    THEN [sha256 |-> Some(SubSeq(s, Len(ShaPrefix) + 1, Len(ShaPrefix) + DigestLen)),
          atEnd  |-> Len(s) = Len(ShaPrefix) + DigestLen]
    ELSE [sha256 |-> None, atEnd |-> s = <<>>]

\* (?P<fqn>[^:@]+)(:(?P<tag>[^@]+))?(@sha256:(?P<sha256>[A-Fa-f0-9]{64}))?$
\* at the text s.  Both repetitions are greedy and can only end at their
\* longest extent: a shorter one is followed by a character that neither
\* group nor the end of the text accepts.
FqnTagSha(s) ==
    LET fqnLen   == SpanLen(s, {":", "@"})
        afterFqn == Drop(s, fqnLen)
        tagLen   == IF afterFqn # <<>> /\ Head(afterFqn) = ":"
                    THEN SpanLen(Tail(afterFqn), {"@"})
                    ELSE 0
        hasTag   == tagLen > 0
        afterTag == IF hasTag THEN Drop(afterFqn, tagLen + 1) ELSE afterFqn
        sha      == ShaGroup(afterTag)
    IN  IF fqnLen > 0 /\ sha.atEnd
        THEN [matched |-> TRUE,
              fqn     |-> Some(Take(s, fqnLen)),
              tag     |-> IF hasTag THEN Some(SubSeq(afterFqn, 2, tagLen + 1)) ELSE None,
              sha256  |-> sha.sha256]
        ELSE NoMatch

\* parse_fqn: ^(registry://)? and then FqnTagSha.  The optional group is
\* tried first; when the rest does not match, it is skipped and the fqn
\* starts at the first character of the text.
parse_fqn(text) ==
    LET withScheme == IF StartsWith(text, Scheme)
                      THEN FqnTagSha(Drop(text, Len(Scheme)))
                      ELSE NoMatch
    IN  IF withScheme.matched THEN withScheme ELSE FqnTagSha(text)

\* parse_image_name_with_scheme: ^registry://(?P<fqn>.*)$ ; it has no tag
\* and no sha256 group
parse_image_name_with_scheme(text) ==
    IF StartsWith(text, Scheme)
    THEN [matched |-> TRUE, fqn |-> Some(Drop(text, Len(Scheme))),
          tag |-> None, sha256 |-> None]
    ELSE NoMatch

\* parse_image_name: (?P<image>.*)$ captures the whole text (no line breaks)
parse_image_name(fqn) == fqn

ImageError ==
    [ok |-> FALSE, registry |-> None, fqn |-> <<>>, name |-> <<>>,
     tag |-> None, sha256 |-> None]

\* Registry with the port of the url left out
RegistryHostOnly(url) ==
    IF ~url.ok \/ url.host = None THEN None ELSE url.host

\* the registry of lines 78-88: host, or host:port, of the url
Registry(url) ==
    IF ~url.ok \/ url.host = None THEN None
    ELSE IF url.port = None THEN url.host
    ELSE Some(url.host[1] \o <<":">> \o ToDecimal(url.port[1]))

\* the regex of lines 94-98
ParseImageReference(url) ==
    IF url.path = <<>> THEN parse_image_name_with_scheme(url.text)
    ELSE parse_fqn(url.text)

ImageNew(s) ==
    LET url      == UrlParse(s)
        captures == ParseImageReference(url)
        fqn      == IF captures.fqn = None THEN <<>> ELSE captures.fqn[1]
    IN  IF ~url.ok THEN ImageError
        ELSE IF ~captures.matched THEN ImageError
        ELSE [ok       |-> TRUE,
              registry |-> Registry(url),
              fqn      |-> fqn,
              name     |-> parse_image_name(fqn),
              tag      |-> captures.tag,
              sha256   |-> captures.sha256]

name_with_tag(img) ==
    img.name \o (IF img.tag = None THEN <<>> ELSE <<":">> \o img.tag[1])

fully_qualified_name(img) ==
    name_with_tag(img)
    \o (IF img.sha256 = None THEN <<>> ELSE ShaPrefix \o img.sha256[1])

(***************************************************************************)
(* validate and the checks of Settings.                                    *)
(***************************************************************************)
is_allowed_registry(settings, registry) == FALSE

is_allowed_tag(settings, tag) == FALSE

is_allowed_image(settings, img) == FALSE

\* ValidationRequest::new(payload)? fails on a payload that does not
\* deserialise; every other request is accepted
validate(req) ==
    IF ~req.wellFormed THEN "error" ELSE "accept"

(***************************************************************************)
(* The references and requests the operations are applied to.              *)
(***************************************************************************)
Alphabet == {"a", "0", "1", ".", ":", "/", "@"}

Strings(n) == UNION {[1..k -> Alphabet] : k \in 0..n}

\* the references of the tests parse_host and parse_image
TestReferences ==
    {<<"i", "m", "a", "g", "e">>,
     <<"i", "m", "a", "g", "e", ":", "t", "a", "g">>,
     <<"e", "x", "a", "m", "p", "l", "e", ".", "c", "o", "m", "/", "i", "m", "a", "g", "e">>,
     <<"e", "x", "a", "m", "p", "l", "e", ".", "c", "o", "m", "/", "i", "m", "a", "g", "e", ":", "t", "a", "g">>,
     <<"e", "x", "a", "m", "p", "l", "e", ".", "c", "o", "m", ":", "5", "0", "0", "0", "/", "i", "m", "a", "g", "e">>,
     <<"e", "x", "a", "m", "p", "l", "e", ".", "c", "o", "m", ":", "5", "0", "0", "0", "/", "i", "m", "a", "g", "e", ":", "t", "a", "g">>,
     <<"1", "0", ".", "0", ".", "0", ".", "1", "0", "0", "/", "i", "m", "a", "g", "e">>,
     <<"1", "0", ".", "0", ".", "0", ".", "1", "0", "0", "/", "i", "m", "a", "g", "e", ":", "t", "a", "g">>,
     <<"1", "0", ".", "0", ".", "0", ".", "1", "0", "0", ":", "5", "0", "0", "0", "/", "i", "m", "a", "g", "e">>,
     <<"1", "0", ".", "0", ".", "0", ".", "1", "0", "0", ":", "5", "0", "0", "0", "/", "i", "m", "a", "g", "e", ":", "t", "a", "g">>}

\* the digest of the test parse_fully_qualified_image
TestDigest ==
    <<"3", "f", "c", "9", "b", "6", "8", "9", "4", "5", "9", "d", "7",
      "3", "8", "f", "8", "c", "8", "8", "a", "3", "a", "4", "8", "a",
      "a", "9", "e", "3", "3", "5", "4", "2", "0", "1", "6", "b", "7",
      "a", "4", "0", "5", "2", "e", "0", "0", "1", "a", "a", "a", "5",
      "3", "6", "f", "c", "a", "7", "4", "8", "1", "3", "c", "b">>

UpperCase(c) ==
    CASE c = "a" -> "A" [] c = "b" -> "B" [] c = "c" -> "C"
      [] c = "d" -> "D" [] c = "e" -> "E" [] c = "f" -> "F"
      [] OTHER -> c

\* digests: well formed (lower case, mixed case, decimal digits only) and
\* malformed (too short, too long, a character that is no hex digit)
Digests ==
    {TestDigest,
     [i \in 1..DigestLen |-> IF i % 2 = 0 THEN UpperCase(TestDigest[i]) ELSE TestDigest[i]],
     [i \in 1..DigestLen |-> IF i = DigestLen - 1 THEN "8" ELSE "0"],
     Take(TestDigest, DigestLen - 1),
     Append(TestDigest, "a"),
     [i \in 1..DigestLen |-> IF i = 1 THEN "g" ELSE TestDigest[i]],
     <<"a", "b", "c">>,
     <<"1", "2">>,
     <<>>}

Bases ==
    Strings(MaxBase)
    \cup {<<"i", "m", "a", "g", "e">>,
          <<"i", "m", "a", "g", "e", ":", "t", "a", "g">>,
          <<"e", "x", "a", "m", "p", "l", "e", ".", "c", "o", "m", "/", "i", "m", "a", "g", "e">>,
          <<"e", "x", "a", "m", "p", "l", "e", ".", "c", "o", "m", "/", "i", "m", "a", "g", "e", ":", "t", "a", "g">>,
          <<"e", "x", "a", "m", "p", "l", "e", ".", "c", "o", "m", ":", "5", "0", "0", "0", "/", "i", "m", "a", "g", "e", ":", "t", "a", "g">>}

DigestReferences == {b \o ShaPrefix \o d : b \in Bases, d \in Digests}

\* ports that are not in canonical decimal form, and a path that ends in '/'
OtherReferences ==
    {<<"e", "x", "a", "m", "p", "l", "e", ".", "c", "o", "m", ":", "/", "i", "m", "a", "g", "e">>,
     <<"e", "x", "a", "m", "p", "l", "e", ".", "c", "o", "m", ":", "0", "8", "0", "/", "i", "m", "a", "g", "e">>,
     <<"e", "x", "a", "m", "p", "l", "e", ".", "c", "o", "m", "/">>,
     <<"e", "x", "a", "m", "p", "l", "e", ".", "c", "o", "m", "/", "i", "m", "a", "g", "e", ":">>,
     <<"i", "m", "a", "g", "e", ":", "5", "0", "0", "0">>,
     <<"r", "e", "g", "i", "s", "t", "r", "y">>}

References ==
    Strings(MaxLen) \cup TestReferences \cup DigestReferences \cup OtherReferences

RequestReferences ==
    {<<"i", "m", "a", "g", "e">>,
     <<"e", "x", "a", "m", "p", "l", "e", ".", "c", "o", "m", "/", "i", "m", "a", "g", "e", ":", "t", "a", "g">>,
     <<"i", "m", "a", "g", "e", ":", "t", "a", "g">>}

Patterns == {<<"*">>}

PatternLists == {<<>>} \cup {<<p>> : p \in Patterns}

AllowReject == [allow : PatternLists, reject : PatternLists]

SettingsSet == [registries : AllowReject, tags : AllowReject, images : AllowReject]

NoSettings ==
    [registries |-> [allow |-> <<>>, reject |-> <<>>],
     tags       |-> [allow |-> <<>>, reject |-> <<>>],
     images     |-> [allow |-> <<>>, reject |-> <<>>]]

\* a payload that does not deserialise
Malformed == [wellFormed |-> FALSE, settings |-> NoSettings, images |-> <<>>]

Requests ==
    {Malformed}
    \cup {[wellFormed |-> TRUE, settings |-> s, images |-> i] :
            s \in SettingsSet,
            i \in UNION {[1..k -> RequestReferences] : k \in 0..MaxImages}}

(***************************************************************************)
(* The state machine.                                                      *)
(***************************************************************************)
\* "{registry}/{name}{:tag}", the registry and its '/' left out when None
Rebuild(img) ==
    (IF img.registry = None THEN <<>> ELSE img.registry[1] \o <<"/">>)
    \o name_with_tag(img)

Init ==
    /\ pc = "idle"
    /\ image = <<>>
    /\ result = ImageError
    /\ reparsed = ImageError
    /\ request = Malformed
    /\ response = "none"

CallImageNew(s) ==
    /\ pc = "idle"
    /\ pc' = "parsed"
    /\ image' = s
    /\ result' = ImageNew(s)
    /\ UNCHANGED <<reparsed, request, response>>

Reparse ==
    /\ pc = "parsed"
    /\ result.ok
    /\ pc' = "reparsed"
    /\ reparsed' = ImageNew(Rebuild(result))
    /\ UNCHANGED <<image, result, request, response>>

CallValidate(req) ==
    /\ pc = "idle"
    /\ pc' = "validated"
    /\ request' = req
    /\ response' = validate(req)
    /\ UNCHANGED <<image, result, reparsed>>

Return ==
    /\ pc # "idle"
    /\ pc' = "idle"
    /\ image' = <<>>
    /\ result' = ImageError
    /\ reparsed' = ImageError
    /\ request' = Malformed
    /\ response' = "none"

Next ==
    \/ \E s \in References : CallImageNew(s)
    \/ Reparse
    \/ \E req \in Requests : CallValidate(req)
    \/ Return

Spec == Init /\ [][Next]_vars

(***************************************************************************)
(* The shapes of reference the properties speak of.                        *)
(***************************************************************************)
HasSlash(s) == Contains(s, "/")

\* the text before the first '/'
Prefix(s) == Take(s, SpanLen(s, {"/"}))

\* the text after the first '/', or the whole reference when it has none
Remainder(s) == IF HasSlash(s) THEN Drop(s, Len(Prefix(s)) + 1) ELSE s

\* the remainder up to its first ':', and what follows that ':'
GivenName(s) == Take(Remainder(s), SpanLen(Remainder(s), {":"}))

GivenTag(s) ==
    LET r == Remainder(s)
        n == SpanLen(r, {":"})
    IN  IF n < Len(r) THEN Some(Drop(r, n + 1)) ELSE None

IsPlain(s) == s # <<>> /\ \A i \in 1..Len(s) : s[i] \notin {":", "@", "/"}

\* a port as the url crate writes it: decimal digits without leading zero,
\* of a value that fits 16 bits
IsPort(s) ==
    /\ s # <<>>
    /\ \A i \in 1..Len(s) : s[i] \in DigitSet
    /\ (Len(s) = 1 \/ s[1] # "0")
    /\ PortValue(s, 1, 0) # -1

HasPort(p) == SpanLen(p, {":"}) < Len(p)

\* host, or host:port
IsHostPort(p) ==
    /\ IsPlain(Take(p, SpanLen(p, {":"})))
    /\ (HasPort(p) => IsPort(Drop(p, SpanLen(p, {":"}) + 1)))

IsHex(d) == Len(d) = DigestLen /\ \A i \in 1..Len(d) : d[i] \in HexSet

EndsWithDigest(s) ==
    /\ Len(s) >= Len(ShaPrefix) + DigestLen
    /\ SubSeq(s, Len(s) - DigestLen - Len(ShaPrefix) + 1, Len(s) - DigestLen) = ShaPrefix
    /\ IsHex(Drop(s, Len(s) - DigestLen))

GivenDigest(s) == Drop(s, Len(s) - DigestLen)

\* "@sha256:" followed, up to the end, by something that is no digest
MalformedDigest(s) ==
    \E i \in 1..Len(s) :
        /\ i + Len(ShaPrefix) - 1 <= Len(s)
        /\ SubSeq(s, i, i + Len(ShaPrefix) - 1) = ShaPrefix
        /\ ~IsHex(Drop(s, i + Len(ShaPrefix) - 1))

OrEmpty(opt) == IF opt = None THEN <<>> ELSE opt[1]

\* the reference parses and passes the three checks of the settings
Passes(settings, s) ==
    LET img == ImageNew(s)
    IN  /\ img.ok
        /\ is_allowed_registry(settings, OrEmpty(img.registry))
        /\ is_allowed_tag(settings, OrEmpty(img.tag))
        /\ is_allowed_image(settings, img.name)

(***************************************************************************)
(* Properties.                                                             *)
(***************************************************************************)
\* C1: a reference without '/' that parses has no registry.
C1_NoSlashNoRegistry ==
    (pc = "parsed" /\ ~HasSlash(image) /\ result.ok) => result.registry = None

\* C2, as stated: a reference with a '/' that parses has the text before
\* its first '/' as its registry.
C2_RegistryIsPrefix ==
    (pc = "parsed" /\ HasSlash(image) /\ result.ok)
        => result.registry = Some(Prefix(image))

\* C2, amended: a reference with a '/' that parses, and whose text before
\* the first '/' is a non-empty host, or such a host and ':' and a port in
\* decimal without leading zeros, has that text as its registry.
C2_RegistryIsHostPortPrefix ==
    (pc = "parsed" /\ HasSlash(image) /\ result.ok /\ IsHostPort(Prefix(image)))
        => result.registry = Some(Prefix(image))

C2_Witness ==
    /\ pc = "parsed"
    /\ image = <<"e", "x", "a", "m", "p", "l", "e", ".", "c", "o", "m", ":", "5", "0", "0", "0", "/", "i", "m", "a", "g", "e", ":", "t", "a", "g">>
    /\ result.ok
    /\ result.registry = Some(<<"e", "x", "a", "m", "p", "l", "e", ".", "c", "o", "m", ":", "5", "0", "0", "0">>)

\* C3: a reference N, N:T, R/N or R/N:T parses, and its name is N.
C3_NameIsGivenName ==
    (/\ pc = "parsed"
     /\ HasSlash(image) => IsHostPort(Prefix(image))
     /\ IsPlain(GivenName(image))
     /\ GivenTag(image) # None => IsPlain(GivenTag(image)[1]))
        => (result.ok /\ result.name = GivenName(image))

\* C4: a reference host:port/name:tag parses, its registry is host:port and
\* its tag is tag.
C4_PortIsNotTag ==
    (/\ pc = "parsed"
     /\ HasSlash(image)
     /\ IsHostPort(Prefix(image))
     /\ HasPort(Prefix(image))
     /\ IsPlain(GivenName(image))
     /\ GivenTag(image) # None
     /\ IsPlain(OrEmpty(GivenTag(image))))
        => (/\ result.ok
            /\ result.registry = Some(Prefix(image))
            /\ result.tag = GivenTag(image))

\* C5: a reference name:tag without '/' parses, with that name and that tag.
C5_NameTagParses ==
    (/\ pc = "parsed"
     /\ ~HasSlash(image)
     /\ IsPlain(GivenName(image))
     /\ GivenTag(image) # None
     /\ IsPlain(OrEmpty(GivenTag(image))))
        => (/\ result.ok
            /\ result.name = GivenName(image)
            /\ result.tag = GivenTag(image))

\* C6: a reference that ends with "@sha256:" and 64 hex digits parses, and
\* its sha256 is those 64 characters.
C6_DigestCaptured ==
    (pc = "parsed" /\ EndsWithDigest(image))
        => (result.ok /\ result.sha256 = Some(GivenDigest(image)))

\* C7: a reference with "@sha256:" followed by something that is not 64 hex
\* digits does not parse.
C7_MalformedDigestFails ==
    (pc = "parsed" /\ MalformedDigest(image)) => ~result.ok

\* C8: the name of a reference that parses is not empty.
C8_NameNotEmpty ==
    (pc = "parsed" /\ result.ok) => result.name # <<>>

\* C9: a request is accepted only if each of its references parses and
\* passes the registry, tag and image checks of its settings.
C9_AcceptOnlyAllowed ==
    (pc = "validated" /\ response = "accept")
        => \A i \in 1..Len(request.images) :
               Passes(request.settings, request.images[i])

\* C10: a parsed reference without digest, rebuilt as registry/name:tag and
\* parsed again, gives the same registry, name, tag and sha256.
C10_RoundTrip ==
    (pc = "reparsed" /\ result.sha256 = None)
        => (/\ reparsed.ok
            /\ reparsed.registry = result.registry
            /\ reparsed.name = result.name
            /\ reparsed.tag = result.tag
            /\ reparsed.sha256 = result.sha256)

====
